---- MODULE Spec2Model ----
(***************************************************************************)
(* Model of the Hyperliquid trading bot: src/src/api/main.py (the FastAPI  *)
(* handlers, trading_loop and execute_trades) together with the parts of   *)
(* src/src/clients/hyperliquid.py that the loop calls.                     *)
(*                                                                         *)
(* Threads: start_trading and stop_trading are plain `def` handlers, which *)
(* FastAPI runs in worker threads; add_asset / remove_asset are            *)
(* `async def` handlers running on the event loop; every trading_loop      *)
(* task added with background_tasks.add_task runs in a worker thread of    *)
(* its own.  All of them share the module globals running, watchlist and   *)
(* executed_trades_log without any lock.                                   *)
(***************************************************************************)
EXTENDS Naturals, Integers, Sequences, FiniteSets, TLC

(***************************************************************************)
(* Bounds of the model.                                                    *)
(***************************************************************************)
\* number of trading_loop tasks that start_trading may schedule
MaxLoops == 2
\* number of cycles one trading_loop task may begin
MaxCycles == 2
\* number of keys of a structured decision payload
MaxBatch == 2
\* number of start_trading calls that may be between line 195 and line 196
MaxRacing == 2

Loops == 1..MaxLoops

(***************************************************************************)
(* Assets.  The watchlist holds formatted symbols.                         *)
(***************************************************************************)
BTC == "BTC/USDC:USDC"
ETH == "ETH/USDC:USDC"
SOL == "SOL/USDC:USDC"
DOGE == "DOGE/USDC:USDC"

\* main.py:32
InitialWatchlist == {BTC, ETH, SOL}

\* path arguments of POST /add-asset/{asset}
AddArgs == {"DOGE", "doge"}
\* arguments of remove_asset
RemoveArgs == {"DOGE", DOGE}

\* str.upper() on the arguments the model passes
Upper(s) ==
    CASE s = "doge" -> "DOGE"
      [] OTHER -> s

\* main.py:218  f"{asset.upper()}/USDC:USDC"
FormatAsset(asset) == Upper(asset) \o "/USDC:USDC"

\* main.py:178  asset.split("/")[0]
BaseSymbol(asset) ==
    CASE asset = BTC -> "BTC"
      [] asset = ETH -> "ETH"
      [] asset = SOL -> "SOL"
      [] asset = DOGE -> "DOGE"
      [] OTHER -> asset

(***************************************************************************)
(* Inputs of the environment.                                              *)
(***************************************************************************)
\* assets a decision payload may act on and a position record may name
DecisionAssets == {BTC, DOGE}
\* the values of a structured decision payload
DecisionValues == {"buy", "sell", "hold"}
\* the key sets of a structured payload: a JSON object of at most MaxBatch keys
StructuredKeys == { ks \in SUBSET DecisionAssets : Cardinality(ks) <= MaxBatch }
\* assets the account can hold a position in
PositionAssets == {BTC}
\* the side of a position fetch_positions reports
PositionSides == {"long", "short"}

VARIABLES
    running,              \* main.py:31
    watchlist,            \* main.py:32
    executed_trades_log,  \* main.py:33
    startPending,         \* start_trading calls between line 195 and line 196
    response,             \* what the handler that returned in the last step returned
    cycles,               \* number of cycles begun so far, by all tasks
    pc,                   \* position of each trading_loop task
    iter,                 \* the set iterator of line 152
    open_positions,       \* line 153: how the dict was obtained
    trade_decisions,      \* lines 174-180: how the dict was obtained
    todo,                 \* keys of trade_decisions the for loop has not reached
    cur,                  \* the item of the for loop being processed
    executed_trades,      \* line 50
    calls,                \* place_order calls of the task's current cycle, by asset
    err,                  \* exception that ended the task
    stopMark,             \* the part of its pass each active task was in when stop_trading stopped the bot
    items,                \* one execute_trades call: the items its for loop has not reached, with what the exchange answers for each
    outcomes,             \* one execute_trades call: what the for body did with each item it has processed
    raised,               \* one execute_trades call: the exception that left it, or how far it is
    market_data,          \* line 152: the assets of DecisionAssets for which get_market_data gave the task no candle
    tokens_left,          \* agent.py:160: items of tokens_with_risk not reached yet
    risk_score,           \* agent.py:160: the score of the item reached last
    agent_trades,         \* agent.py:159: executed_trades of TradingAgent
    request,              \* hyperliquid.py:93: the arguments of place_order
    exchange_orders,      \* the orders create_order created on the exchange
    place_pc,             \* position of the place_order call, or how it ended
    trip                  \* one add_asset call and the remove_asset call after it: the argument, the watchlist before, how far it is

vars == << running, watchlist, executed_trades_log, startPending, response,
           cycles, pc, iter, open_positions, trade_decisions, todo, cur,
           executed_trades, calls, err, stopMark, items, outcomes, raised,
           market_data, tokens_left, risk_score, agent_trades, request,
           exchange_orders, place_pc, trip >>

agentVars == << tokens_left, risk_score, agent_trades >>
orderVars == << request, exchange_orders, place_pc >>

\* the variables of the calls that are modelled on their own: one
\* execute_trades call, one TradingAgent.execute_trades call, one place_order
\* call
execVars == << items, outcomes, raised, agentVars, orderVars, trip >>

loopLocals == << iter, open_positions, trade_decisions, todo, cur,
                 executed_trades, calls, err, market_data >>

NoIter == [used |-> 0, created |-> {}, yielded |-> {}]
NoCur == [asset |-> "", decision |-> "", side |-> "", held |-> ""]
NoRequest == [side |-> "", amount |-> 0, price |-> 0, take_profit |-> 0,
              stop_loss |-> 0, quote |-> 0]

\* TradingAgent.execute_trades has not been called
AgentIdle ==
    /\ tokens_left = 0
    /\ risk_score = 0
    /\ agent_trades = << >>

\* place_order of the client has not been called on its own
OrderIdle ==
    /\ request = NoRequest
    /\ exchange_orders = << >>
    /\ place_pc = "not called"
NoCalls == << >>

\* no add_asset call is being followed
NoTrip == [arg |-> "", before |-> {}, added |-> FALSE, step |-> "none"]

\* positions inside one pass of the while body, before time.sleep
CyclePcs == {"market_data", "positions", "risk", "decide", "execute", "place"}
\* a task is active from the moment it has entered a cycle until it returns
ActivePcs == CyclePcs \cup {"sleep", "check"}

Init ==
    /\ running = FALSE
    /\ watchlist = InitialWatchlist
    /\ executed_trades_log = << >>
    /\ startPending = 0
    /\ response = "none"
    /\ cycles = 0
    /\ pc = [i \in Loops |-> "none"]
    /\ iter = [i \in Loops |-> NoIter]
    /\ open_positions = [i \in Loops |-> "none"]
    /\ trade_decisions = [i \in Loops |-> "none"]
    /\ todo = [i \in Loops |-> {}]
    /\ cur = [i \in Loops |-> NoCur]
    /\ executed_trades = [i \in Loops |-> << >>]
    /\ calls = [i \in Loops |-> NoCalls]
    /\ err = [i \in Loops |-> "none"]
    /\ stopMark = [i \in Loops |-> "none"]
    /\ items = << >>
    /\ outcomes = << >>
    /\ raised = "not called"
    /\ market_data = [i \in Loops |-> {}]
    /\ AgentIdle
    /\ OrderIdle
    /\ trip = NoTrip

(***************************************************************************)
(* Lifecycle handlers: main.py:191-209.                                    *)
(***************************************************************************)
\* the tasks of `pool` that start_trading has not scheduled yet
FreeLoops(pool) == { i \in pool : pc[i] = "none" }

\* the step is no return of a handler
NoResponse == response' = "none"

\* a start_trading that schedules a task whatever the flag says
StartTestAlways(r) == TRUE

\* main.py:195  `if not running`
StartTest(r) == ~r

\* a stop_trading that never takes the "not running" branch
StopTestAlways(r) == TRUE

\* main.py:206  `if running`
StopTest(r) == r

\* a loop that never looks at the flag
WhileTestAlways(r) == TRUE

\* main.py:148  `while running`
WhileTest(r) == r

\* start_trading, lines 195 and 199: the test fails and the handler returns
StartAlreadyRunning ==
    /\ ~StartTest(running)
    /\ response' = "Trading bot already running"
    /\ UNCHANGED << running, watchlist, executed_trades_log, startPending,
                    cycles, pc, loopLocals, stopMark >>
    /\ UNCHANGED execVars

\* start_trading, line 195: the test passes; the thread may be preempted
\* before line 196 (the handler runs in a worker thread, without a lock)
StartCheck(pool) ==
    /\ StartTest(running)
    /\ startPending < MaxRacing
    /\ startPending < Cardinality(FreeLoops(pool))
    /\ startPending' = startPending + 1
    /\ UNCHANGED << running, watchlist, executed_trades_log, cycles, pc, loopLocals, stopMark >>
    /\ NoResponse
    /\ UNCHANGED execVars

\* start_trading, lines 196-198
StartSet(pool) ==
    /\ startPending > 0
    /\ FreeLoops(pool) # {}
    /\ LET i == CHOOSE j \in FreeLoops(pool) : \A k \in FreeLoops(pool) : j <= k
       IN pc' = [pc EXCEPT ![i] = "scheduled"]
    /\ running' = TRUE
    /\ startPending' = startPending - 1
    /\ response' = "Trading bot started"
    /\ UNCHANGED << watchlist, executed_trades_log, cycles, loopLocals,
                    stopMark >>
    /\ UNCHANGED execVars

\* the part of the while body a task at `at` is in: before line 185, or later
StopPhase(at) ==
    IF at \in {"market_data", "positions", "risk", "decide"}
    THEN "before_execute" ELSE "later"

\* stop_trading, lines 206-208.  The test and the assignment are taken as one
\* step at the assignment: whatever runs between them can only change the
\* status string a second, racing stop_trading returns.
StopRunning ==
    /\ StopTest(running)
    /\ running' = FALSE
    /\ response' = "Trading bot stopped"
    /\ stopMark' = [i \in Loops |->
                      IF pc[i] \in ActivePcs /\ stopMark[i] = "none"
                      THEN StopPhase(pc[i]) ELSE stopMark[i]]
    /\ UNCHANGED << watchlist, executed_trades_log, startPending,
                    cycles, pc, loopLocals >>
    /\ UNCHANGED execVars

\* stop_trading, lines 206 and 209
StopNotRunning ==
    /\ ~StopTest(running)
    /\ response' = "Trading bot is not running"
    /\ UNCHANGED << running, watchlist, executed_trades_log, startPending,
                    cycles, pc, loopLocals, stopMark >>
    /\ UNCHANGED execVars

(***************************************************************************)
(* Watchlist handlers: main.py:212-237.                                    *)
(***************************************************************************)
\* hyperliquid.py:83-91  a candle list, an empty list, or None on an exception
MarketDataResults == {"candle", "empty", "None"}

\* truth value of a get_market_data result (main.py:223)
Truthy(md) == md = "candle"

\* lines 218-228: add_asset when get_market_data answers md
AddAssetWith(asset, md) ==
    LET formatted_asset == FormatAsset(asset) IN
    IF Truthy(md)
    THEN /\ watchlist' = watchlist \cup {formatted_asset}
         /\ response' = "Added " \o formatted_asset \o " to watchlist"
    ELSE /\ watchlist' = watchlist
         /\ response' = "Asset " \o formatted_asset
                           \o " is not tradable on Hyperliquid"

\* add_asset
AddAsset(asset) ==
    \E md \in MarketDataResults :
        /\ AddAssetWith(asset, md)
        /\ UNCHANGED << running, executed_trades_log, startPending,
                        cycles, pc, loopLocals, stopMark >>
        /\ UNCHANGED execVars

\* lines 234-237: remove_asset tests and removes its argument as it came
RemoveAssetFrom(asset) ==
    IF asset \in watchlist
    THEN /\ watchlist' = watchlist \ {asset}
         /\ response' = "Removed " \o asset \o " from watchlist"
    ELSE /\ watchlist' = watchlist
         /\ response' = "Asset not in watchlist"

\* remove_asset
RemoveAsset(asset) ==
    /\ RemoveAssetFrom(asset)
    /\ UNCHANGED << running, executed_trades_log, startPending,
                    cycles, pc, loopLocals, stopMark >>
    /\ UNCHANGED execVars

\* the path arguments of an add_asset call that a remove_asset call with
\* the same argument follows
TripArgs == AddArgs \cup {"BTC", "SOL"}

\* the watchlists the two calls can find
TripWatchlists == SUBSET {BTC, ETH, SOL, DOGE}

\* everything the two handlers leave alone
tripFrame == << running, executed_trades_log, startPending, cycles, pc,
                loopLocals, stopMark, items, outcomes, raised, agentVars,
                orderVars >>

\* add_asset is called
TripAdd ==
    /\ trip.step = "none"
    /\ \E asset \in TripArgs : \E md \in MarketDataResults :
         /\ AddAssetWith(asset, md)
         /\ trip' = [arg |-> asset, before |-> watchlist,
                     added |-> Truthy(md), step |-> "added"]
    /\ UNCHANGED tripFrame

\* remove_asset is called with the argument of the add_asset call
TripRemove ==
    /\ trip.step = "added"
    /\ RemoveAssetFrom(trip.arg)
    /\ trip' = [trip EXCEPT !.step = "removed"]
    /\ UNCHANGED tripFrame

\* the state in which add_asset is called: no loop has been started
InitAddRemove ==
    /\ running = FALSE
    /\ watchlist \in TripWatchlists
    /\ executed_trades_log = << >>
    /\ startPending = 0
    /\ response = "none"
    /\ cycles = 0
    /\ pc = [i \in Loops |-> "none"]
    /\ iter = [i \in Loops |-> NoIter]
    /\ open_positions = [i \in Loops |-> "none"]
    /\ trade_decisions = [i \in Loops |-> "none"]
    /\ todo = [i \in Loops |-> {}]
    /\ cur = [i \in Loops |-> NoCur]
    /\ executed_trades = [i \in Loops |-> << >>]
    /\ calls = [i \in Loops |-> NoCalls]
    /\ err = [i \in Loops |-> "none"]
    /\ stopMark = [i \in Loops |-> "none"]
    /\ items = << >>
    /\ outcomes = << >>
    /\ raised = "not called"
    /\ market_data = [i \in Loops |-> {}]
    /\ AgentIdle
    /\ OrderIdle
    /\ trip = NoTrip

NextAddRemove ==
    \/ TripAdd
    \/ TripRemove

SpecAddRemove == InitAddRemove /\ [][NextAddRemove]_vars

(***************************************************************************)
(* Read handlers: main.py:246-255.                                         *)
(***************************************************************************)
\* get_trades: returns executed_trades_log
GetTrades ==
    /\ response' = "executed_trades"
    /\ UNCHANGED << running, watchlist, executed_trades_log, startPending,
                    cycles, pc, loopLocals, stopMark >>
    /\ UNCHANGED execVars

\* get_status: returns running and a list of the watchlist
GetStatus ==
    /\ response' = IF running THEN "running: true" ELSE "running: false"
    /\ UNCHANGED << running, watchlist, executed_trades_log, startPending,
                    cycles, pc, loopLocals, stopMark >>
    /\ UNCHANGED execVars

(***************************************************************************)
(* trading_loop: main.py:145-189.                                          *)
(***************************************************************************)
\* an uncaught exception leaves trading_loop; the task's thread ends and
\* nothing resets `running`
Raise(i, e) ==
    /\ pc' = [pc EXCEPT ![i] = "crashed"]
    /\ err' = [err EXCEPT ![i] = e]
    /\ iter' = [iter EXCEPT ![i] = NoIter]
    /\ open_positions' = [open_positions EXCEPT ![i] = "none"]
    /\ trade_decisions' = [trade_decisions EXCEPT ![i] = "none"]
    /\ todo' = [todo EXCEPT ![i] = {}]
    /\ cur' = [cur EXCEPT ![i] = NoCur]
    /\ executed_trades' = [executed_trades EXCEPT ![i] = << >>]
    /\ calls' = [calls EXCEPT ![i] = NoCalls]
    /\ market_data' = [market_data EXCEPT ![i] = {}]

\* line 148 true: a cycle begins; line 152 creates the iterator over the
\* live watchlist set
LoopBegin(i) ==
    /\ pc[i] \in {"scheduled", "check"}
    /\ WhileTest(running)
    /\ cycles < MaxCycles
    /\ cycles' = cycles + 1
    /\ iter' = [iter EXCEPT ![i] = [used |-> Cardinality(watchlist),
                                    created |-> watchlist,
                                    yielded |-> {}]]
    /\ pc' = [pc EXCEPT ![i] = "market_data"]
    /\ market_data' = [market_data EXCEPT ![i] = {}]
    /\ UNCHANGED << running, watchlist, executed_trades_log, startPending,
                    open_positions, trade_decisions,
                    todo, cur, executed_trades, calls, err, stopMark >>
    /\ NoResponse
    /\ UNCHANGED execVars

\* line 148 false: trading_loop returns
LoopExit(i) ==
    /\ pc[i] \in {"scheduled", "check"}
    /\ ~WhileTest(running)
    /\ pc' = [pc EXCEPT ![i] = "done"]
    /\ UNCHANGED << running, watchlist, executed_trades_log, startPending,
                    cycles, loopLocals, stopMark >>
    /\ NoResponse
    /\ UNCHANGED execVars

\* line 152: next() on the set iterator finds the set's size changed
\* (RuntimeError: Set changed size during iteration)
MdRaise(i) ==
    /\ pc[i] = "market_data"
    /\ Cardinality(watchlist) # iter[i].used
    /\ Raise(i, "RuntimeError")
    /\ UNCHANGED << running, watchlist, executed_trades_log, startPending,
                    cycles, stopMark >>
    /\ NoResponse
    /\ UNCHANGED execVars

\* line 152: the assets without a candle, once get_market_data has answered
\* md for `asset`; hyperliquid.py:91 returns None when the fetch failed.
\* Only the entries of the assets a decision can name are kept.
NoCandle(without, asset, md) ==
    IF ~Truthy(md) /\ asset \in DecisionAssets THEN without \cup {asset}
                                                ELSE without

\* line 152: next() yields an asset and get_market_data fetches its candle.
\* The order in which a set yields its elements is not fixed.  The candles
\* go into the prompt of line 161 and nowhere else.
MdFetch(i) ==
    /\ pc[i] = "market_data"
    /\ Cardinality(watchlist) = iter[i].used
    /\ \E asset \in watchlist \ iter[i].yielded, md \in MarketDataResults :
         /\ iter' = [iter EXCEPT ![i].yielded = @ \cup {asset}]
         /\ market_data' = [market_data EXCEPT ![i] =
                               NoCandle(@, asset, md)]
    /\ UNCHANGED << running, watchlist, executed_trades_log, startPending,
                    cycles, pc, open_positions, trade_decisions,
                    todo, cur, executed_trades, calls, err, stopMark >>
    /\ NoResponse
    /\ UNCHANGED execVars

\* line 152: the iterator is exhausted.  When the set was changed during the
\* iteration without changing its size, the iterator may also stop early.
MdDone(i) ==
    /\ pc[i] = "market_data"
    /\ Cardinality(watchlist) = iter[i].used
    /\ \/ watchlist \subseteq iter[i].yielded
       \/ watchlist # iter[i].created
    /\ pc' = [pc EXCEPT ![i] = "positions"]
    /\ UNCHANGED << running, watchlist, executed_trades_log, startPending,
                    cycles, loopLocals, stopMark >>
    /\ NoResponse
    /\ UNCHANGED execVars

\* line 153, hyperliquid.py:43-76: fetch_positions succeeds.  The dict is read
\* once per asset, at lines 74-78; the model draws an asset's entry there.
FetchPositions(i) ==
    /\ pc[i] = "positions"
    /\ open_positions' = [open_positions EXCEPT ![i] = "fetched"]
    /\ pc' = [pc EXCEPT ![i] = "risk"]
    /\ UNCHANGED << running, watchlist, executed_trades_log, startPending,
                    cycles, iter, trade_decisions,
                    todo, cur, executed_trades, calls, err, stopMark >>
    /\ NoResponse
    /\ UNCHANGED << execVars, market_data >>

\* line 153, hyperliquid.py:78-80: fetch_positions raises, {} is returned
FetchPositionsFail(i) ==
    /\ pc[i] = "positions"
    /\ open_positions' = [open_positions EXCEPT ![i] = "failed"]
    /\ pc' = [pc EXCEPT ![i] = "risk"]
    /\ UNCHANGED << running, watchlist, executed_trades_log, startPending,
                    cycles, iter, trade_decisions,
                    todo, cur, executed_trades, calls, err, stopMark >>
    /\ NoResponse
    /\ UNCHANGED << execVars, market_data >>

\* lines 159-163: the risk assessment agent answers
RiskRequest(i) ==
    /\ pc[i] = "risk"
    /\ pc' = [pc EXCEPT ![i] = "decide"]
    /\ UNCHANGED << running, watchlist, executed_trades_log, startPending,
                    cycles, loopLocals, stopMark >>
    /\ NoResponse
    /\ UNCHANGED execVars

\* lines 159-162: swarm_client.run raises; nothing catches it
RiskRaise(i) ==
    /\ pc[i] = "risk"
    /\ Raise(i, "SwarmError")
    /\ UNCHANGED << running, watchlist, executed_trades_log, startPending,
                    cycles, stopMark >>
    /\ NoResponse
    /\ UNCHANGED execVars

\* lines 167-174: the answer is a JSON object.  Its values are read once per
\* key, at line 52; the model draws a key's value there.
DecideStructured(i, keysets) ==
    /\ pc[i] = "decide"
    /\ \E ks \in keysets : todo' = [todo EXCEPT ![i] = ks]
    /\ trade_decisions' = [trade_decisions EXCEPT ![i] = "structured"]
    /\ pc' = [pc EXCEPT ![i] = "execute"]
    /\ UNCHANGED << running, watchlist, executed_trades_log, startPending,
                    cycles, iter, open_positions,
                    cur, executed_trades, calls, err, stopMark >>
    /\ NoResponse
    /\ UNCHANGED << execVars, market_data >>

\* lines 177-180: the keys of the fallback decisions, read from the live
\* watchlist
FallbackKeys(wl) == wl

\* lines 175-180: the answer is not JSON
DecideFallback(i) ==
    /\ pc[i] = "decide"
    /\ todo' = [todo EXCEPT ![i] = FallbackKeys(watchlist)]
    /\ trade_decisions' = [trade_decisions EXCEPT ![i] = "fallback"]
    /\ pc' = [pc EXCEPT ![i] = "execute"]
    /\ UNCHANGED << running, watchlist, executed_trades_log, startPending,
                    cycles, iter, open_positions,
                    cur, executed_trades, calls, err, stopMark >>
    /\ NoResponse
    /\ UNCHANGED << execVars, market_data >>

\* lines 167-170: swarm_client.run raises; nothing catches it
DecideRaise(i) ==
    /\ pc[i] = "decide"
    /\ Raise(i, "SwarmError")
    /\ UNCHANGED << running, watchlist, executed_trades_log, startPending,
                    cycles, stopMark >>
    /\ NoResponse
    /\ UNCHANGED execVars

\* lines 174 and 52: the answer is JSON but not an object; .items() raises
DecideNotObject(i) ==
    /\ pc[i] = "decide"
    /\ Raise(i, "AttributeError")
    /\ UNCHANGED << running, watchlist, executed_trades_log, startPending,
                    cycles, stopMark >>
    /\ NoResponse
    /\ UNCHANGED execVars

(***************************************************************************)
(* execute_trades: main.py:47-143, called at line 185.                     *)
(***************************************************************************)
\* what hyperliquid.place_order returns on failure (hyperliquid.py:145-147)
NoneOrder == [asset |-> "None", side |-> "None"]

\* the order hyperliquid.place_order returns on success (hyperliquid.py:143)
MainOrder(asset, side) == [asset |-> asset, side |-> side]

\* texts of a payload that is not JSON, by the base symbols they contain
RawTexts == SUBSET { BaseSymbol(a) : a \in DecisionAssets }

\* a heuristic that sells what the text names
FallbackSell(asset, text) ==
    IF BaseSymbol(asset) \in text THEN "sell" ELSE "hold"

\* line 178: the fallback decision of an asset
FallbackDecision(asset, text) ==
    IF BaseSymbol(asset) \in text THEN "buy" ELSE "hold"

\* the values trade_decisions can hold for a key (line 52)
ItemDecisions(source, asset) ==
    IF source = "structured"
    THEN DecisionValues
    ELSE { FallbackDecision(asset, text) : text \in RawTexts }

\* lines 74-83: the sides open_positions can give an asset, "none" when the
\* asset is no key of it; hyperliquid.py:80 returns {} when the fetch failed
ItemSides(positions, asset) ==
    IF positions = "fetched" /\ asset \in PositionAssets
    THEN PositionSides \cup {"none"}
    ELSE {"none"}

\* the side the asset is held in on the exchange while the item is processed:
\* the dict of a fetch that succeeded tells it (hyperliquid.py:46-76); after
\* a fetch that failed the dict is {} whatever the exchange holds
\* (hyperliquid.py:78-80)
HeldSides(positions, asset, position_side) ==
    IF positions = "fetched" THEN {position_side}
    ELSE IF asset \in PositionAssets THEN PositionSides \cup {"none"}
    ELSE {"none"}

\* lines 92, 102, 112, 122 and 132: the branch that places the order
Branch(decision, position_side) ==
    CASE decision = "sell" /\ position_side = "long" -> "close_long"
      [] decision = "buy" /\ position_side = "short" -> "close_short"
      [] decision = "sell" /\ position_side = "none" -> "open_short"
      [] decision = "buy" /\ position_side = "none" -> "open_long"
      [] OTHER -> "flat"

\* lines 98, 108, 118, 128 append whatever place_order returned;
\* lines 136-138 append only an order
ReturnsOrder(kind, ok) == kind # "flat" \/ ok

\* a log that keeps only its newest order
LogKeepLast(log, order) == << order >>

\* line 139: executed_trades_log.append(trade_info)
LogAppend(log, order) == Append(log, order)

\* line 139 is the only append to executed_trades_log
LogsOrder(kind, ok) == kind = "flat" /\ ok

\* an executor that skips every asset once the bot has been stopped
InWatchlistWhileRunning(asset, wl) == running /\ asset \in wl

\* an executor that takes every asset for a watchlist asset
InWatchlistAlways(asset, wl) == TRUE

\* line 53
InWatchlist(asset, wl) == asset \in wl

\* an executor that acts on every decision value
ActionableAlways(decision) == TRUE

\* line 57
Actionable(decision) == decision \in {"buy", "sell"}

\* a for loop that stays on the same key
AdvanceNowhere(keys, asset) == keys

\* lines 55, 59, 67, 99, 109, 119, 129 and the end of the for body: the
\* keys left for the for loop once `asset` has been processed
Advance(keys, asset) == keys \ {asset}

\* the record of one more place_order call for `asset`
Called(c, asset, ok) ==
    [a \in DOMAIN c \cup {asset} |->
       IF a = asset
       THEN IF a \in DOMAIN c THEN Append(c[a], ok) ELSE << ok >>
       ELSE c[a]]

execUnchanged == << running, watchlist, executed_trades_log, startPending,
                    cycles, iter, open_positions, trade_decisions,
                    executed_trades, calls, err, stopMark, market_data >>

\* lines 53-55
ExecNotInWatchlist(i) ==
    /\ pc[i] = "execute"
    /\ \E asset \in todo[i] :
         /\ ~InWatchlist(asset, watchlist)
         /\ todo' = [todo EXCEPT ![i] = Advance(@, asset)]
    /\ UNCHANGED << pc, cur >>
    /\ UNCHANGED execUnchanged
    /\ NoResponse
    /\ UNCHANGED execVars

\* lines 57-59
ExecNoAction(i) ==
    /\ pc[i] = "execute"
    /\ \E asset \in todo[i] :
       \E decision \in ItemDecisions(trade_decisions[i], asset) :
         /\ InWatchlist(asset, watchlist)
         /\ ~Actionable(decision)
         /\ todo' = [todo EXCEPT ![i] = Advance(@, asset)]
    /\ UNCHANGED << pc, cur >>
    /\ UNCHANGED execUnchanged
    /\ NoResponse
    /\ UNCHANGED execVars

\* lines 62-67: fetch_ticker raises, or its "last" is no number
ExecTickerFail(i) ==
    /\ pc[i] = "execute"
    /\ \E asset \in todo[i] :
       \E decision \in ItemDecisions(trade_decisions[i], asset) :
         /\ InWatchlist(asset, watchlist)
         /\ Actionable(decision)
         /\ todo' = [todo EXCEPT ![i] = Advance(@, asset)]
    /\ UNCHANGED << pc, cur >>
    /\ UNCHANGED execUnchanged
    /\ NoResponse
    /\ UNCHANGED execVars

\* lines 62-70: the last price is 0; Decimal("20") / 0 raises outside the try
ExecTickerZero(i) ==
    /\ pc[i] = "execute"
    /\ \E asset \in todo[i] :
       \E decision \in ItemDecisions(trade_decisions[i], asset) :
         /\ InWatchlist(asset, watchlist)
         /\ Actionable(decision)
    /\ Raise(i, "DivisionByZero")
    /\ UNCHANGED << running, watchlist, executed_trades_log, startPending,
                    cycles, stopMark >>
    /\ NoResponse
    /\ UNCHANGED execVars

\* lines 62-89: the price is fetched and the position classified
ExecTicker(i) ==
    /\ pc[i] = "execute"
    /\ \E asset \in todo[i] :
       \E decision \in ItemDecisions(trade_decisions[i], asset) :
       \E position_side \in ItemSides(open_positions[i], asset) :
       \E held \in HeldSides(open_positions[i], asset, position_side) :
         /\ InWatchlist(asset, watchlist)
         /\ Actionable(decision)
         /\ cur' = [cur EXCEPT ![i] = [asset |-> asset,
                                       decision |-> decision,
                                       side |-> position_side,
                                       held |-> held]]
    /\ pc' = [pc EXCEPT ![i] = "place"]
    /\ UNCHANGED todo
    /\ UNCHANGED execUnchanged
    /\ NoResponse
    /\ UNCHANGED execVars

\* lines 91-141: the place_order call of the item and what is kept of it
ExecPlace(i) ==
    /\ pc[i] = "place"
    /\ \E ok \in BOOLEAN :
         LET kind == Branch(cur[i].decision, cur[i].side)
             order == IF ok THEN MainOrder(cur[i].asset, cur[i].decision)
                            ELSE NoneOrder
         IN /\ calls' = [calls EXCEPT ![i] = Called(@, cur[i].asset, ok)]
            /\ executed_trades' = [executed_trades EXCEPT ![i] =
                                     IF ReturnsOrder(kind, ok)
                                     THEN Append(@, order) ELSE @]
            /\ executed_trades_log' = IF LogsOrder(kind, ok)
                                      THEN LogAppend(executed_trades_log, order)
                                      ELSE executed_trades_log
    /\ todo' = [todo EXCEPT ![i] = Advance(@, cur[i].asset)]
    /\ cur' = [cur EXCEPT ![i] = NoCur]
    /\ pc' = [pc EXCEPT ![i] = "execute"]
    /\ UNCHANGED << running, watchlist, startPending, cycles, iter,
                    open_positions, trade_decisions, err, stopMark >>
    /\ NoResponse
    /\ UNCHANGED << execVars, market_data >>

\* line 143; the loop goes on to line 189.  The locals of the cycle are dead.
ExecReturn(i) ==
    /\ pc[i] = "execute"
    /\ todo[i] = {}
    /\ pc' = [pc EXCEPT ![i] = "sleep"]
    /\ iter' = [iter EXCEPT ![i] = NoIter]
    /\ open_positions' = [open_positions EXCEPT ![i] = "none"]
    /\ trade_decisions' = [trade_decisions EXCEPT ![i] = "none"]
    /\ executed_trades' = [executed_trades EXCEPT ![i] = << >>]
    /\ market_data' = [market_data EXCEPT ![i] = {}]
    /\ UNCHANGED << running, watchlist, executed_trades_log, startPending,
                    cycles, todo, cur, calls, err, stopMark >>
    /\ NoResponse
    /\ UNCHANGED execVars

\* line 189: time.sleep(20) returns
Sleep(i) ==
    /\ pc[i] = "sleep"
    /\ pc' = [pc EXCEPT ![i] = "check"]
    /\ calls' = [calls EXCEPT ![i] = NoCalls]
    /\ UNCHANGED << running, watchlist, executed_trades_log, startPending,
                    cycles, iter, open_positions,
                    trade_decisions, todo, cur, executed_trades, err,
                    stopMark >>
    /\ NoResponse
    /\ UNCHANGED << execVars, market_data >>

(***************************************************************************)
(* The specifications.                                                     *)
(*                                                                         *)
(* Spec follows one trading_loop task through its cycles, with every       *)
(* handler and every answer of the collaborators.  SpecLifecycle follows   *)
(* MaxLoops tasks at once, with collaborators that answer and a decision   *)
(* source that returns an empty JSON object, and without the watchlist     *)
(* handlers.                                                               *)
(***************************************************************************)
\* the task slots of Spec
OneLoop == {1}

LoopStep(i) ==
    \/ LoopBegin(i)
    \/ LoopExit(i)
    \/ MdRaise(i)
    \/ MdFetch(i)
    \/ MdDone(i)
    \/ FetchPositions(i)
    \/ FetchPositionsFail(i)
    \/ RiskRequest(i)
    \/ RiskRaise(i)
    \/ DecideStructured(i, StructuredKeys)
    \/ DecideFallback(i)
    \/ DecideRaise(i)
    \/ DecideNotObject(i)
    \/ ExecNotInWatchlist(i)
    \/ ExecNoAction(i)
    \/ ExecTickerFail(i)
    \/ ExecTickerZero(i)
    \/ ExecTicker(i)
    \/ ExecPlace(i)
    \/ ExecReturn(i)
    \/ Sleep(i)

Next ==
    \/ StartAlreadyRunning
    \/ StartCheck(OneLoop)
    \/ StartSet(OneLoop)
    \/ StopRunning
    \/ StopNotRunning
    \/ \E asset \in AddArgs : AddAsset(asset)
    \/ \E asset \in RemoveArgs : RemoveAsset(asset)
    \/ GetTrades
    \/ GetStatus
    \/ \E i \in OneLoop : LoopStep(i)

Spec == Init /\ [][Next]_vars

LifecycleLoopStep(i) ==
    \/ LoopBegin(i)
    \/ LoopExit(i)
    \/ MdFetch(i)
    \/ MdDone(i)
    \/ FetchPositions(i)
    \/ FetchPositionsFail(i)
    \/ RiskRequest(i)
    \/ RiskRaise(i)
    \/ DecideStructured(i, {{}})
    \/ DecideRaise(i)
    \/ ExecReturn(i)
    \/ Sleep(i)

NextLifecycle ==
    \/ StartAlreadyRunning
    \/ StartCheck(Loops)
    \/ StartSet(Loops)
    \/ StopRunning
    \/ StopNotRunning
    \/ \E i \in Loops : LifecycleLoopStep(i)

SpecLifecycle == Init /\ [][NextLifecycle]_vars

\* the event loop runs every task that can take a step: each await of the
\* body (the collaborator calls run to their end, asyncio.sleep of line 189
\* returns) hands the task back to the loop
SpecLifecycleFair ==
    SpecLifecycle /\ \A i \in Loops : WF_vars(LifecycleLoopStep(i))

(***************************************************************************)
(* execute_trades with its numbers: main.py:47-143.                        *)
(*                                                                         *)
(* Prices are counted in cents, the quantum of lines 86-87, and quantities *)
(* in millionths, the quantum of line 70.  The float() conversions of      *)
(* lines 95, 105, 115, 125 and 133 keep the value at this resolution.      *)
(***************************************************************************)
\* line 70: Decimal("20")
MinNotional == 20
\* lines 86-87: Decimal("0.01")
CentsPerUnit == 100
\* line 70: Decimal("0.000001")
MicrosPerUnit == 1000000
\* line 86: Decimal("1.20"), in hundredths
TakeProfitPercent == 120
\* line 87: Decimal("0.80"), in hundredths
StopLossPercent == 80

\* decimal.ROUND_UP: n / d rounded away from zero to a whole number, d > 0
RoundUpDiv(n, d) ==
    IF n >= 0 THEN (n + d - 1) \div d ELSE 0 - ((0 - n + d - 1) \div d)

\* decimal.ROUND_DOWN: n / d rounded towards zero to a whole number, d > 0
RoundDownDiv(n, d) ==
    IF n >= 0 THEN n \div d ELSE 0 - ((0 - n) \div d)

\* a sizing that rounds towards zero
MinTradeSizeDown(latest_price) ==
    IF latest_price > 0
    THEN RoundDownDiv(MinNotional * MicrosPerUnit * CentsPerUnit, latest_price)
    ELSE 0 - RoundDownDiv(MinNotional * MicrosPerUnit * CentsPerUnit,
                          0 - latest_price)

\* line 70: min_trade_size in millionths for a price in cents other than 0
MinTradeSize(latest_price) ==
    IF latest_price > 0
    THEN RoundUpDiv(MinNotional * MicrosPerUnit * CentsPerUnit, latest_price)
    ELSE 0 - RoundUpDiv(MinNotional * MicrosPerUnit * CentsPerUnit,
                        0 - latest_price)

\* a take profit at the entry price
TakeProfitFlat(entry_price) == entry_price

\* line 86: take_profit_price in cents
TakeProfit(entry_price) ==
    RoundUpDiv(entry_price * TakeProfitPercent, CentsPerUnit)

\* a stop loss that rounds away from zero
StopLossUp(entry_price) ==
    RoundUpDiv(entry_price * StopLossPercent, CentsPerUnit)

\* line 87: stop_loss_price in cents
StopLoss(entry_price) ==
    RoundDownDiv(entry_price * StopLossPercent, CentsPerUnit)

\* what fetch_ticker answers at line 63: an exception, or a last price in
\* cents
LatestPrices == {0 - 100, 0, 1, 7, 10000, 10001}
TickerError == [error |-> TRUE, last |-> 0]
TickerAnswers ==
    {TickerError} \cup { [error |-> FALSE, last |-> p] : p \in LatestPrices }

\* the entries of open_positions (hyperliquid.py:61-74): contracts in
\* millionths, entryPrice in cents
PositionSizes == {1000, 1000000}
EntryPrices == {3, 200000}
PositionRecords ==
    [held : {TRUE}, complete : {TRUE}, side : PositionSides,
     contracts : PositionSizes, entryPrice : EntryPrices]
\* records whose entryPrice is None or absent: hyperliquid.py:54-57 copies
\* only the keys the exchange gave, with the values it gave
IncompleteRecords ==
    [held : {TRUE}, complete : {FALSE}, side : PositionSides,
     contracts : {1000}, entryPrice : {0}]
\* the asset is no key of open_positions
NoPosition == [held |-> FALSE, complete |-> TRUE, side |-> "",
               contracts |-> 0, entryPrice |-> 0]

\* what open_positions holds for an asset: no key, or a record
PositionAnswers(asset) ==
    IF asset \in PositionAssets
    THEN {NoPosition} \cup PositionRecords \cup IncompleteRecords
    ELSE {NoPosition}

\* the values a decision payload can give a key, in the enum or not
ExecutorDecisions == DecisionValues \cup {"BUY"}

\* an item of trade_decisions.items() with what the exchange answers for it
ExecutorItems ==
    UNION { [asset : {a}, decision : ExecutorDecisions,
             ticker : TickerAnswers, position : PositionAnswers(a)]
            : a \in DecisionAssets }

\* the keys of a dict of at most MaxBatch keys, in the order of the dict
ExecutorKeys ==
    { o \in UNION { [1..n -> DecisionAssets] : n \in 1..MaxBatch } :
        \A j, k \in DOMAIN o : j # k => o[j] # o[k] }

\* the items of a dict of at most MaxBatch keys, in the order of the dict
ExecutorBatches ==
    UNION { { b \in [DOMAIN o -> ExecutorItems] :
                \A k \in DOMAIN o : b[k].asset = o[k] }
            : o \in ExecutorKeys }

\* the watchlists execute_trades can find
ExecutorWatchlists ==
    { InitialWatchlist, InitialWatchlist \cup {DOGE}, InitialWatchlist \ {BTC} }

\* lines 74-83: position_side
PositionSide(position) ==
    IF ~position.held THEN "none" ELSE position.side

\* lines 77 and 82: position_size
PositionSize(position, min_trade_size) ==
    IF ~position.held THEN min_trade_size ELSE position.contracts

\* lines 78 and 83: entry_price
EntryPrice(position, latest_price) ==
    IF ~position.held THEN latest_price ELSE position.entryPrice

\* a quantity that grows with the trade log
AmountByLog(kind, position_size, min_trade_size) ==
    IF kind \in {"close_long", "close_short"}
    THEN position_size + Len(executed_trades_log)
    ELSE min_trade_size + Len(executed_trades_log)

\* a quantity that is always the minimum trade size
AmountMinimum(kind, position_size, min_trade_size) == min_trade_size

\* lines 95, 105, 115, 125, 133: the quantity passed to place_order
Amount(kind, position_size, min_trade_size) ==
    IF kind \in {"close_long", "close_short"} THEN position_size
                                              ELSE min_trade_size

\* no place_order call
NoCall == [asset |-> "", side |-> "", amount |-> 0, price |-> 0,
           take_profit |-> 0, stop_loss |-> 0]

\* lines 94-96, 104-106, 114-116, 124-126, 132-135: the arguments of the
\* place_order call for an item whose ticker gave a price other than 0
PlaceOrderCall(item) ==
    LET latest_price == item.ticker.last
        min_trade_size == MinTradeSize(latest_price)
        position_side == PositionSide(item.position)
        position_size == PositionSize(item.position, min_trade_size)
        entry_price == EntryPrice(item.position, latest_price)
        kind == Branch(item.decision, position_side)
    IN [asset |-> item.asset,
        side |-> item.decision,
        amount |-> Amount(kind, position_size, min_trade_size),
        price |-> latest_price,
        take_profit |-> TakeProfit(entry_price),
        stop_loss |-> StopLoss(entry_price)]

\* what the for body did with an item
Outcome(item, step, fetched, size, call, ok) ==
    [item |-> item, step |-> step, fetched |-> fetched,
     min_trade_size |-> size, call |-> call, ok |-> ok]

\* the state in which execute_trades is called
InitExecutor ==
    /\ running = TRUE
    /\ watchlist \in ExecutorWatchlists
    /\ executed_trades_log = << >>
    /\ startPending = 0
    /\ response = "none"
    /\ cycles = 0
    /\ pc = [i \in Loops |-> "none"]
    /\ iter = [i \in Loops |-> NoIter]
    /\ open_positions = [i \in Loops |-> "none"]
    /\ trade_decisions = [i \in Loops |-> "none"]
    /\ todo = [i \in Loops |-> {}]
    /\ cur = [i \in Loops |-> NoCur]
    /\ executed_trades = [i \in Loops |-> << >>]
    /\ calls = [i \in Loops |-> NoCalls]
    /\ err = [i \in Loops |-> "none"]
    /\ stopMark = [i \in Loops |-> "none"]
    /\ items \in ExecutorBatches
    /\ outcomes = << >>
    /\ raised = "running"
    /\ market_data = [i \in Loops |-> {}]
    /\ AgentIdle
    /\ OrderIdle
    /\ trip = NoTrip

executorFrame == << running, watchlist, startPending, response, cycles, pc,
                    loopLocals, stopMark, agentVars, orderVars, trip >>

\* the for loop goes on to the next item
NextItem(outcome) ==
    /\ items' = Tail(items)
    /\ outcomes' = Append(outcomes, outcome)
    /\ UNCHANGED raised

\* lines 53-55
ExecutorNotInWatchlist ==
    /\ raised = "running" /\ items # << >>
    /\ ~InWatchlist(items[1].asset, watchlist)
    /\ NextItem(Outcome(items[1], "not in watchlist", FALSE, 0, NoCall, FALSE))
    /\ UNCHANGED << executed_trades_log, executorFrame >>

\* lines 57-59
ExecutorNoAction ==
    /\ raised = "running" /\ items # << >>
    /\ InWatchlist(items[1].asset, watchlist)
    /\ ~Actionable(items[1].decision)
    /\ NextItem(Outcome(items[1], "no action", FALSE, 0, NoCall, FALSE))
    /\ UNCHANGED << executed_trades_log, executorFrame >>

\* lines 62-67
ExecutorTickerFail ==
    /\ raised = "running" /\ items # << >>
    /\ InWatchlist(items[1].asset, watchlist)
    /\ Actionable(items[1].decision)
    /\ items[1].ticker.error
    /\ NextItem(Outcome(items[1], "no price", TRUE, 0, NoCall, FALSE))
    /\ UNCHANGED << executed_trades_log, executorFrame >>

\* lines 62-70: Decimal("20") / Decimal("0") raises decimal.DivisionByZero,
\* outside the try of lines 62-67, and leaves execute_trades
ExecutorDivisionByZero ==
    /\ raised = "running" /\ items # << >>
    /\ InWatchlist(items[1].asset, watchlist)
    /\ Actionable(items[1].decision)
    /\ ~items[1].ticker.error
    /\ items[1].ticker.last = 0
    /\ raised' = "DivisionByZero"
    /\ UNCHANGED << items, outcomes, executed_trades_log, executorFrame >>

\* lines 74-78: position["entryPrice"] raises KeyError when the key is
\* absent, and Decimal(str(None)) raises decimal.InvalidOperation; nothing
\* catches either and the exception leaves execute_trades
ExecutorPositionRaises ==
    /\ raised = "running" /\ items # << >>
    /\ InWatchlist(items[1].asset, watchlist)
    /\ Actionable(items[1].decision)
    /\ ~items[1].ticker.error
    /\ items[1].ticker.last # 0
    /\ ~items[1].position.complete
    /\ raised' = "InvalidOperation"
    /\ UNCHANGED << items, outcomes, executed_trades_log, executorFrame >>

\* lines 62-141 for a price other than 0
ExecutorPlace ==
    /\ raised = "running" /\ items # << >>
    /\ InWatchlist(items[1].asset, watchlist)
    /\ Actionable(items[1].decision)
    /\ ~items[1].ticker.error
    /\ items[1].ticker.last # 0
    /\ items[1].position.complete
    /\ \E ok \in BOOLEAN :
         LET kind == Branch(items[1].decision, PositionSide(items[1].position))
             call == PlaceOrderCall(items[1])
         IN /\ NextItem(Outcome(items[1], kind, TRUE,
                                MinTradeSize(items[1].ticker.last), call, ok))
            /\ executed_trades_log' =
                 IF LogsOrder(kind, ok)
                 THEN LogAppend(executed_trades_log,
                                MainOrder(items[1].asset, items[1].decision))
                 ELSE executed_trades_log
    /\ UNCHANGED executorFrame

\* line 143
ExecutorReturn ==
    /\ raised = "running" /\ items = << >>
    /\ raised' = "returned"
    /\ UNCHANGED << items, outcomes, executed_trades_log, executorFrame >>

NextExecutor ==
    \/ ExecutorNotInWatchlist
    \/ ExecutorNoAction
    \/ ExecutorTickerFail
    \/ ExecutorDivisionByZero
    \/ ExecutorPositionRaises
    \/ ExecutorPlace
    \/ ExecutorReturn

SpecExecutor == InitExecutor /\ [][NextExecutor]_vars

\* the items execute_trades has gone through
Resolved == [k \in 1..Len(outcomes) |-> outcomes[k].item]

\* line 185 in the next pass of the while body: execute_trades is called
\* again, here with the decisions, positions, prices and watchlist of the
\* call before; the module-level executed_trades_log keeps what that call
\* appended
ExecutorCalledAgain ==
    /\ raised = "returned"
    /\ outcomes # << >>
    /\ Len(outcomes) <= MaxBatch
    /\ items' = Resolved
    /\ raised' = "running"
    /\ UNCHANGED << outcomes, executed_trades_log, executorFrame >>

NextResolveTwice ==
    \/ NextExecutor
    \/ ExecutorCalledAgain

SpecResolveTwice == InitExecutor /\ [][NextResolveTwice]_vars

(***************************************************************************)
(* TradingAgent.execute_trades: agent.py:153-184.  The risk scores are the  *)
(* values of tokens_with_risk; the agent instructions of main.py:38 give    *)
(* their range.                                                             *)
(***************************************************************************)
\* main.py:38: "Score from 0-100"
MaxScore == 100
\* agent.py:161
BuyBelow == 40
\* main.py:44: "Sell if >60", an instruction to the language model; no code
\* compares a score with it
SellAbove == 60

RiskScores == 0..MaxScore

\* everything but the variables of TradingAgent.execute_trades
notAgent == << running, watchlist, executed_trades_log, startPending,
               response, cycles, pc, loopLocals, stopMark, items, outcomes,
               raised, orderVars, trip >>

\* the state of the program when none of its handlers has run
ProgramIdle ==
    /\ running = FALSE
    /\ watchlist = InitialWatchlist
    /\ executed_trades_log = << >>
    /\ startPending = 0
    /\ response = "none"
    /\ cycles = 0
    /\ pc = [i \in Loops |-> "none"]
    /\ iter = [i \in Loops |-> NoIter]
    /\ open_positions = [i \in Loops |-> "none"]
    /\ trade_decisions = [i \in Loops |-> "none"]
    /\ todo = [i \in Loops |-> {}]
    /\ cur = [i \in Loops |-> NoCur]
    /\ executed_trades = [i \in Loops |-> << >>]
    /\ calls = [i \in Loops |-> NoCalls]
    /\ err = [i \in Loops |-> "none"]
    /\ stopMark = [i \in Loops |-> "none"]
    /\ items = << >>
    /\ outcomes = << >>
    /\ raised = "not called"
    /\ market_data = [i \in Loops |-> {}]

\* the state in which TradingAgent.execute_trades is called with a dict of
\* 1 to MaxBatch tokens
InitAgent ==
    /\ ProgramIdle
    /\ trip = NoTrip
    /\ OrderIdle
    /\ tokens_left \in 1..MaxBatch
    /\ risk_score = 0
    /\ agent_trades = << >>

\* the entry lines 167-169 append for a buy
AgentTrade(score) == [risk_score |-> score, side |-> "buy"]

\* lines 160-169 for a score below 40: place_order(token, is_buy=True, ...)
\* and an entry in executed_trades
AgentBuy ==
    /\ tokens_left > 0
    /\ \E score \in RiskScores :
         /\ score < BuyBelow
         /\ risk_score' = score
         /\ agent_trades' = Append(agent_trades, AgentTrade(score))
    /\ tokens_left' = tokens_left - 1
    /\ UNCHANGED notAgent

\* lines 160-161 for any other score: the for body does nothing
AgentPass ==
    /\ tokens_left > 0
    /\ \E score \in RiskScores :
         /\ ~(score < BuyBelow)
         /\ risk_score' = score
    /\ tokens_left' = tokens_left - 1
    /\ UNCHANGED << agent_trades, notAgent >>

NextAgent ==
    \/ AgentBuy
    \/ AgentPass

SpecAgent == InitAgent /\ [][NextAgent]_vars

(***************************************************************************)
(* HyperliquidClient.place_order: hyperliquid.py:93-147.  Prices are in     *)
(* cents and quantities in millionths, as in the executor; 0 stands for an  *)
(* argument that is None.                                                   *)
(***************************************************************************)
\* line 101: slippage = 0.02, in hundredths
SlippagePercent == 2

\* round(x, 2) for x = n / 100 cents, n >= 0: to the nearest cent, a tie to
\* the even cent
RoundHalfEven(n) ==
    LET q == n \div CentsPerUnit
        r == n % CentsPerUnit
    IN IF 2 * r < CentsPerUnit THEN q
       ELSE IF 2 * r > CentsPerUnit THEN q + 1
       ELSE IF q % 2 = 0 THEN q ELSE q + 1

\* line 96
OrderType(price) == IF price # 0 THEN "limit" ELSE "market"

\* lines 98-107: the price of the main order; `quote` is what the exchange
\* answers, the last price for a market order and midPx for a limit order
OrderPrice(order_type, side, quote) ==
    IF order_type = "market"
    THEN RoundHalfEven(quote * (IF side = "buy"
                                THEN CentsPerUnit + SlippagePercent
                                ELSE CentsPerUnit - SlippagePercent))
    ELSE quote

\* a trigger order on the side of the main order
SameSide(side) == side

\* lines 123 and 135: "sell" if side == "buy" else "buy"
Inverse(side) == IF side = "buy" THEN "sell" ELSE "buy"

\* lines 96-107: the price place_order goes on with
MainPrice(req) == OrderPrice(OrderType(req.price), req.side, req.quote)

\* lines 110-116: the arguments of the create_order call of the main
\* order, for a price other than 0
MainCreate(req) ==
    [kind |-> "main", type |-> OrderType(req.price), side |-> req.side,
     amount |-> MinTradeSize(MainPrice(req)), price |-> MainPrice(req)]

\* lines 120-127 and 132-139: the arguments of the create_order call of a
\* take-profit ("tp") or stop-loss ("sl") order
TriggerCreate(req, tpsl, trigger_price) ==
    [kind |-> tpsl, type |-> "trigger", side |-> Inverse(req.side),
     amount |-> MainCreate(req).amount, price |-> trigger_price]

\* the arguments of a place_order call and the price the exchange answers:
\* the quotes avoid the halves of a cent, where round() of a float depends
\* on the binary value
PlaceOrderRequests ==
    [side : {"buy", "sell"}, amount : PositionSizes, price : {0, 10000},
     take_profit : {0, 12000}, stop_loss : {0, 8000},
     quote : {0, 7, 10000, 10001}]

\* everything but the variables of the place_order call
notOrder == << running, watchlist, executed_trades_log, startPending,
               response, cycles, pc, loopLocals, stopMark, items, outcomes,
               raised, agentVars, trip >>

\* the state in which place_order is called
InitPlaceOrder ==
    /\ ProgramIdle
    /\ trip = NoTrip
    /\ AgentIdle
    /\ request \in PlaceOrderRequests
    /\ exchange_orders = << >>
    /\ place_pc = "called"

\* lines 145-147: the except clause
ReturnNone ==
    /\ place_pc' = "returned None"
    /\ UNCHANGED << request, exchange_orders, notOrder >>

\* lines 100 and 107: fetch_ticker or load_markets raises
PlaceQuoteFails ==
    /\ place_pc = "called"
    /\ ReturnNone

\* line 110 for a price of 0: Decimal("20") / Decimal("0") raises
PlaceSizeFails ==
    /\ place_pc = "called"
    /\ MainPrice(request) = 0
    /\ ReturnNone

\* lines 96-117: the main order is created
PlaceMain ==
    /\ place_pc = "called"
    /\ MainPrice(request) # 0
    /\ exchange_orders' = Append(exchange_orders, MainCreate(request))
    /\ place_pc' = "take_profit"
    /\ UNCHANGED << request, notOrder >>

\* lines 114-116: create_order raises for the main order
PlaceMainFails ==
    /\ place_pc = "called"
    /\ MainPrice(request) # 0
    /\ ReturnNone

\* lines 120-128
PlaceTakeProfit ==
    /\ place_pc = "take_profit"
    /\ request.take_profit # 0
    /\ exchange_orders' =
         Append(exchange_orders,
                TriggerCreate(request, "tp", request.take_profit))
    /\ place_pc' = "stop_loss"
    /\ UNCHANGED << request, notOrder >>

\* line 120 for take_profit None
PlaceNoTakeProfit ==
    /\ place_pc = "take_profit"
    /\ request.take_profit = 0
    /\ place_pc' = "stop_loss"
    /\ UNCHANGED << request, exchange_orders, notOrder >>

\* lines 121-127: create_order raises for the take-profit order
PlaceTakeProfitFails ==
    /\ place_pc = "take_profit"
    /\ request.take_profit # 0
    /\ ReturnNone

\* lines 132-143
PlaceStopLoss ==
    /\ place_pc = "stop_loss"
    /\ request.stop_loss # 0
    /\ exchange_orders' =
         Append(exchange_orders,
                TriggerCreate(request, "sl", request.stop_loss))
    /\ place_pc' = "returned main_order"
    /\ UNCHANGED << request, notOrder >>

\* lines 132 and 143 for stop_loss None
PlaceNoStopLoss ==
    /\ place_pc = "stop_loss"
    /\ request.stop_loss = 0
    /\ place_pc' = "returned main_order"
    /\ UNCHANGED << request, exchange_orders, notOrder >>

\* lines 133-139: create_order raises for the stop-loss order
PlaceStopLossFails ==
    /\ place_pc = "stop_loss"
    /\ request.stop_loss # 0
    /\ ReturnNone

NextPlaceOrder ==
    \/ PlaceQuoteFails
    \/ PlaceSizeFails
    \/ PlaceMain
    \/ PlaceMainFails
    \/ PlaceTakeProfit
    \/ PlaceNoTakeProfit
    \/ PlaceTakeProfitFails
    \/ PlaceStopLoss
    \/ PlaceNoStopLoss
    \/ PlaceStopLossFails

SpecPlaceOrder == InitPlaceOrder /\ [][NextPlaceOrder]_vars

(***************************************************************************)
(* Lifecycle properties.                                                   *)
(***************************************************************************)
\* the tasks that are inside a pass of the while body or in its sleep
InCycleOrSleep == { i \in Loops : pc[i] \in CyclePcs \cup {"sleep"} }

\* C1: at every moment at most one trading_loop task is inside a cycle or
\* its sleep, whatever start_trading and stop_trading calls were made.
C1_AtMostOneActiveLoop == Cardinality(InCycleOrSleep) <= 1

\* C2: a task that was active when stop_trading moved the bot from running
\* to stopped begins no cycle after that stop, whatever calls follow.
C2_NoNewCycleAfterStop ==
    [][ \A i \in Loops :
          stopMark[i] # "none" => ~(pc[i] = "check" /\ pc'[i] = "market_data")
      ]_vars

\* C3: start_trading called while the bot is running changes nothing (the
\* running flag, the watchlist, the trade log, the tasks and the scheduled
\* starts stay as they are) and returns "Trading bot already running"; no
\* start_trading call gets past its test while the bot is running.
C3_StartWhileRunningIsNoOp ==
    [][ /\ response' = "Trading bot already running"
            => /\ running
               /\ UNCHANGED << running, watchlist, executed_trades_log,
                               startPending, cycles, pc, loopLocals >>
        /\ running => /\ startPending' <= startPending
                      /\ response' # "Trading bot started"
                           \/ startPending' < startPending
      ]_vars

\* C3 witness: start_trading has returned "already running" while a task
\* exists
C3_Witness ==
    /\ response = "Trading bot already running"
    /\ running
    /\ \E i \in Loops : pc[i] # "none"

\* C4: stop_trading called while the bot is stopped changes nothing and
\* returns "Trading bot is not running"; called while the bot is running it
\* returns "Trading bot stopped" and leaves the bot stopped.
C4_StopStatus ==
    [][ /\ response' = "Trading bot is not running"
            => /\ ~running
               /\ UNCHANGED << running, watchlist, executed_trades_log,
                               startPending, cycles, pc, loopLocals, stopMark >>
        /\ response' = "Trading bot stopped" => running /\ ~running'
        /\ (running' # running /\ ~running')
            => response' = "Trading bot stopped"
      ]_vars

\* C4 witness: a second stop_trading has returned "not running" after the
\* bot had been started and stopped
C4_Witness ==
    /\ response = "Trading bot is not running"
    /\ \E i \in Loops : stopMark[i] # "none"

(***************************************************************************)
(* Properties of a cycle.                                                  *)
(***************************************************************************)
\* an asset left to task i is in the watchlist and can have a buy or sell
\* decision
CanTrade(i) ==
    \E a \in todo[i] \cap watchlist :
       \E d \in ItemDecisions(trade_decisions[i], a) : Actionable(d)

\* the step the cycle of task i is at can be taken
CycleStepEnabled(i) ==
    /\ pc[i] = "market_data"
         => ENABLED (MdFetch(i) \/ MdDone(i) \/ MdRaise(i))
    /\ pc[i] = "positions" => ENABLED FetchPositions(i)
    /\ pc[i] = "risk" => ENABLED RiskRequest(i)
    /\ pc[i] = "decide" => /\ ENABLED DecideStructured(i, StructuredKeys)
                           /\ ENABLED DecideFallback(i)
    /\ (pc[i] = "execute" /\ CanTrade(i)) => ENABLED ExecTicker(i)
    /\ (pc[i] = "execute" /\ todo[i] \cap watchlist # {})
         => ENABLED ExecNoAction(i)
    /\ (pc[i] = "execute" /\ todo[i] \subseteq watchlist)
         => ~ENABLED ExecNotInWatchlist(i)
    /\ (pc[i] = "execute" /\ todo[i] \ watchlist # {})
         => ENABLED ExecNotInWatchlist(i)
    /\ (pc[i] = "execute" /\ todo[i] = {}) => ENABLED ExecReturn(i)
    /\ pc[i] = "place" => ENABLED ExecPlace(i)
    /\ pc[i] = "sleep" => ENABLED Sleep(i)

\* C5: stop_trading in the middle of a cycle does not interrupt the cycle.
\* While the bot is stopped, every step of the cycle in flight (market data,
\* positions, the two agent requests, the order of every asset left, the
\* sleep) can still be taken; only the test at the top of the while loop
\* depends on the flag, and it lets no next cycle begin.
C5_StopDoesNotInterruptCycle ==
    \A i \in OneLoop :
       ~running => /\ pc[i] \in CyclePcs \cup {"sleep"} => CycleStepEnabled(i)
                   /\ pc[i] = "check" => /\ ~ENABLED LoopBegin(i)
                                         /\ ENABLED LoopExit(i)

\* C5 witness: the bot was stopped before the cycle reached its executor,
\* and the cycle has placed an order and reached its sleep all the same
C5_Witness ==
    \E i \in OneLoop :
       /\ stopMark[i] = "before_execute"
       /\ ~running
       /\ pc[i] = "sleep"
       /\ calls[i] # NoCalls

\* C6: in a cycle the executor calls place_order at most once per asset,
\* whether the call succeeds or fails: no retry, and no opening order after
\* a closing order for the same asset.
C6_OneCallPerAssetPerCycle ==
    \A i \in OneLoop : \A a \in DOMAIN calls[i] : Len(calls[i][a]) <= 1

\* C6 witness: a cycle has reached its sleep with a failed place_order call
\* for an asset, made once
C6_Witness ==
    \E i \in OneLoop :
       /\ pc[i] = "sleep"
       /\ \E a \in DOMAIN calls[i] : calls[i][a] = << FALSE >>

\* the item at hand adds to a position on the same side
Pyramiding(item) ==
    \/ item.decision = "buy" /\ item.side = "long"
    \/ item.decision = "sell" /\ item.side = "short"

\* C7: when the decision is buy and the position is long, or the decision
\* is sell and the position is short, no place_order call is made for the
\* asset.
C7_NoPyramiding ==
    [][ \A i \in OneLoop :
          (pc[i] = "place" /\ Pyramiding(cur[i])) => calls'[i] = calls[i]
      ]_vars

\* the result of the place_order call made by the step
LastCallOk(i) ==
    LET made == calls'[i][cur[i].asset] IN made[Len(made)]

\* C8: every successful place_order call of the executor, whatever branch
\* made it, appends its order to executed_trades_log, and a failed call
\* appends nothing.
C8_LogHoldsEverySuccess ==
    [][ \A i \in OneLoop :
          (pc[i] = "place" /\ pc'[i] = "execute")
            => executed_trades_log' =
                 IF LastCallOk(i)
                 THEN Append(executed_trades_log,
                             MainOrder(cur[i].asset, cur[i].decision))
                 ELSE executed_trades_log
      ]_vars

\* the assets of the orders in the trade log
Logged == { executed_trades_log[k].asset : k \in 1..Len(executed_trades_log) }

\* C9: when the place_order call of asset x has failed in a cycle and the
\* cycle has reached its sleep, the order of every other asset y placed in
\* that cycle is in executed_trades_log.
C9_FailureDoesNotLoseOthers ==
    \A i \in OneLoop :
       pc[i] = "sleep" =>
         \A x, y \in DOMAIN calls[i] :
            (x # y /\ calls[i][x] = << FALSE >> /\ calls[i][y] = << TRUE >>)
              => y \in Logged

\* C10: a cycle works on the set of assets read at its top.  The market-data
\* pass covers exactly that set and does not fail, the fallback decisions
\* have exactly its assets as keys, and the executor goes on to the ticker
\* of an asset only when the asset is in that set.
C10_CycleUsesOneSnapshot ==
    [][ \A i \in OneLoop :
          /\ (pc[i] = "market_data" /\ pc'[i] = "positions")
               => iter[i].yielded = iter[i].created
          /\ pc[i] = "market_data" => err'[i] # "RuntimeError"
          /\ (pc[i] = "decide" /\ trade_decisions'[i] = "fallback")
               => todo'[i] = iter[i].created
          /\ (pc[i] = "execute" /\ pc'[i] = "place")
               => cur'[i].asset \in iter[i].created
      ]_vars

(***************************************************************************)
(* Failures of the collaborators.                                          *)
(***************************************************************************)
\* the exceptions a failing call of the risk or the decision agent raises
\* into trading_loop (lines 159-162 and 167-170)
CollaboratorFailures == {"SwarmError"}

\* C11: a failing collaborator call (market data, positions, risk agent,
\* decision agent, place_order) never ends the trading_loop task: after the
\* failure the task is still inside its cycle, in its sleep or at the test
\* of the while loop.
C11_CollaboratorFailureKeepsLoop ==
    \A i \in OneLoop :
       err[i] \in CollaboratorFailures => pc[i] \in ActivePcs

\* C20: a decision payload that is no JSON object of decisions never aborts
\* the cycle: from the decision step the task goes on to execute_trades
\* with the fallback decisions and is not left by an exception about the
\* payload.
C20_UnparseablePayloadFallsBack ==
    [][ \A i \in OneLoop :
          pc[i] = "decide" => err'[i] # "AttributeError"
      ]_vars

(***************************************************************************)
(* Properties of the orders execute_trades passes to place_order.          *)
(***************************************************************************)
\* x is n / d rounded up to a whole number (n >= 0, d > 0)
IsRoundedUp(x, n, d) == x * d >= n /\ (x - 1) * d < n

\* x is n / d rounded down to a whole number (n >= 0, d > 0)
IsRoundedDown(x, n, d) == x * d <= n /\ (x + 1) * d > n

\* the for body got as far as its place_order call for the item
ReachesOrder(item) ==
    /\ item.asset \in watchlist
    /\ item.decision \in {"buy", "sell"}
    /\ ~item.ticker.error
    /\ item.ticker.last # 0

\* the decision of the item opposes the position the asset is held in
Opposes(item) ==
    /\ item.position.held
    /\ \/ item.decision = "sell" /\ item.position.side = "long"
       \/ item.decision = "buy" /\ item.position.side = "short"

\* the outcomes of the call so far that are about `asset`
OutcomesOf(asset) ==
    { k \in DOMAIN outcomes : outcomes[k].item.asset = asset }

\* C12: when the decision opposes the open position, execute_trades passes
\* one order to place_order for the asset: side = the decision, quantity =
\* the position's size, price = the latest price, take profit and stop loss
\* computed from the position's entry price; it is a closing order, and no
\* opening order is passed for the asset.
C12_ClosingOrder ==
    \A k \in DOMAIN outcomes :
       LET o == outcomes[k] IN
       (Opposes(o.item) /\ ReachesOrder(o.item)) =>
          /\ o.step \in {"close_long", "close_short"}
          /\ o.call.asset = o.item.asset
          /\ o.call.side = o.item.decision
          /\ o.call.amount = o.item.position.contracts
          /\ o.call.price = o.item.ticker.last
          /\ IsRoundedUp(o.call.take_profit,
                         o.item.position.entryPrice * TakeProfitPercent,
                         CentsPerUnit)
          /\ IsRoundedDown(o.call.stop_loss,
                           o.item.position.entryPrice * StopLossPercent,
                           CentsPerUnit)
          /\ OutcomesOf(o.item.asset) = {k}

\* C12 witness: execute_trades has returned after a sell on a long position
\* whose size is not the minimum trade size
C12_Witness ==
    /\ raised = "returned"
    /\ \E k \in DOMAIN outcomes :
          /\ outcomes[k].step = "close_long"
          /\ outcomes[k].ok
          /\ outcomes[k].call.amount # outcomes[k].min_trade_size

\* C13: when the asset has no open position and the decision is buy or
\* sell, execute_trades passes one order to place_order: side = the
\* decision, quantity = 20 / latest price rounded up to 6 places, price =
\* the latest price, take profit = 1.20 x latest price rounded up to 2
\* places and stop loss = 0.80 x latest price rounded down to 2 places;
\* 120.00 and 80.00 for a latest price of 100.
C13_OpeningOrder ==
    \A k \in DOMAIN outcomes :
       LET o == outcomes[k]
           latest == o.item.ticker.last
       IN
       (~o.item.position.held /\ ReachesOrder(o.item) /\ latest > 0) =>
          /\ o.step = IF o.item.decision = "buy" THEN "open_long"
                                                 ELSE "open_short"
          /\ o.call.asset = o.item.asset
          /\ o.call.side = o.item.decision
          /\ IsRoundedUp(o.call.amount,
                         MinNotional * MicrosPerUnit * CentsPerUnit, latest)
          /\ o.call.price = latest
          /\ IsRoundedUp(o.call.take_profit, latest * TakeProfitPercent,
                         CentsPerUnit)
          /\ IsRoundedDown(o.call.stop_loss, latest * StopLossPercent,
                           CentsPerUnit)
          /\ latest = 10000 => /\ o.call.take_profit = 12000
                               /\ o.call.stop_loss = 8000
          /\ OutcomesOf(o.item.asset) = {k}

\* C13 witness: a buy without a position at a latest price of 100.00 has
\* been passed to place_order
C13_Witness ==
    \E k \in DOMAIN outcomes :
       /\ outcomes[k].step = "open_long"
       /\ outcomes[k].item.ticker.last = 10000
       /\ outcomes[k].call.take_profit = 12000
       /\ outcomes[k].call.amount = 200000

\* C14: for a decision value other than buy and sell (hold, or a value
\* outside the enum) the for body fetches no price, calls place_order not
\* at all and leaves executed_trades_log as it is.
C14_NoActionForOtherDecisions ==
    [][ (items # << >> /\ items[1].decision \notin {"buy", "sell"})
          => /\ Len(outcomes') = Len(outcomes) + 1
             /\ outcomes'[Len(outcomes')].item = items[1]
             /\ ~outcomes'[Len(outcomes')].fetched
             /\ outcomes'[Len(outcomes')].call = NoCall
             /\ executed_trades_log' = executed_trades_log
      ]_vars

\* C14 witness: a decision outside the enum for a watchlist asset with a
\* position and a good price has been processed
C14_Witness ==
    \E k \in DOMAIN outcomes :
       /\ outcomes[k].item.decision = "BUY"
       /\ outcomes[k].item.asset \in watchlist
       /\ outcomes[k].item.position.held
       /\ outcomes[k].item.ticker.last > 0

\* C15: for an asset that is not in the watchlist when its item is
\* processed, whatever the decision and the position, the for body fetches
\* no price, calls place_order not at all and leaves executed_trades_log as
\* it is.
C15_NotInWatchlistIsIgnored ==
    [][ (items # << >> /\ items[1].asset \notin watchlist)
          => /\ Len(outcomes') = Len(outcomes) + 1
             /\ outcomes'[Len(outcomes')].item = items[1]
             /\ ~outcomes'[Len(outcomes')].fetched
             /\ outcomes'[Len(outcomes')].call = NoCall
             /\ executed_trades_log' = executed_trades_log
      ]_vars

\* C15 witness: a sell for an asset outside the watchlist, held long and
\* with a good price, has been processed
C15_Witness ==
    \E k \in DOMAIN outcomes :
       /\ outcomes[k].item.asset \notin watchlist
       /\ outcomes[k].item.decision = "sell"
       /\ outcomes[k].item.position.held
       /\ outcomes[k].item.position.side = "long"
       /\ outcomes[k].item.ticker.last > 0

\* quantity x price of a call is at least MinNotional; quantities are in
\* millionths and prices in cents, and the comparison is made by division
MeetsMinNotional(call) ==
    LET least == MinNotional * MicrosPerUnit * CentsPerUnit IN
    \/ call.price > 0 /\ call.amount >= RoundUpDiv(least, call.price)
    \/ call.price < 0 /\ 0 - call.amount >= RoundUpDiv(least, 0 - call.price)

\* C16: every order execute_trades passes to place_order at a price above
\* zero, opening or closing, has quantity x price >= MinNotional, whatever
\* the decision and the size of the position.
C16_EveryOrderMeetsMinNotional ==
    \A k \in DOMAIN outcomes :
       (outcomes[k].call # NoCall /\ outcomes[k].call.price > 0)
         => MeetsMinNotional(outcomes[k].call)

\* C17: for every price P > 0 the minimum trade size of line 70 is 20 / P
\* rounded up to 6 decimal places, and that size times P is at least 20.
C17_SizingMeetsMinNotional ==
    \A k \in DOMAIN outcomes :
       LET o == outcomes[k]
           least == MinNotional * MicrosPerUnit * CentsPerUnit
       IN
       (ReachesOrder(o.item) /\ o.item.ticker.last > 0) =>
          /\ o.min_trade_size * o.item.ticker.last >= least
          /\ IsRoundedUp(o.min_trade_size, least, o.item.ticker.last)

\* C17 witness: a size has been computed for a price that does not divide
\* 20: 20 / 0.07 = 285.714286 after rounding up
C17_Witness ==
    \E k \in DOMAIN outcomes :
       /\ outcomes[k].item.ticker.last = 7
       /\ outcomes[k].min_trade_size = 285714286

\* the entry price lines 74-83 give the item
EntryOf(item) ==
    IF item.position.held THEN item.position.entryPrice
                          ELSE item.ticker.last

\* C18: for every entry price E > 0 the take profit is 1.20 x E rounded up
\* to 2 decimal places, the stop loss is 0.80 x E rounded down to 2 decimal
\* places, and take profit > E > stop loss.
C18_BracketPrices ==
    \A k \in DOMAIN outcomes :
       LET o == outcomes[k]
           E == EntryOf(o.item)
       IN
       (o.call # NoCall /\ E > 0) =>
          /\ IsRoundedUp(o.call.take_profit, E * TakeProfitPercent,
                         CentsPerUnit)
          /\ IsRoundedDown(o.call.stop_loss, E * StopLossPercent,
                           CentsPerUnit)
          /\ o.call.take_profit > E
          /\ E > o.call.stop_loss

\* C18 witness: brackets have been computed for an entry price of 0.03,
\* where both roundings act: 0.036 -> 0.04 and 0.024 -> 0.02
C18_Witness ==
    \E k \in DOMAIN outcomes :
       /\ outcomes[k].call # NoCall
       /\ EntryOf(outcomes[k].item) = 3
       /\ outcomes[k].call.take_profit = 4
       /\ outcomes[k].call.stop_loss = 2

\* C19: a latest price of zero or less places no order for the asset and
\* does not keep execute_trades from processing the items left: no
\* exception leaves execute_trades.
C19_BadPriceSkipsAssetOnly ==
    /\ raised # "DivisionByZero"
    /\ \A k \in DOMAIN outcomes :
          (outcomes[k].fetched /\ ~outcomes[k].item.ticker.error
             /\ outcomes[k].item.ticker.last <= 0)
            => outcomes[k].call = NoCall

(***************************************************************************)
(* Market data, positions and the decision source.                         *)
(***************************************************************************)
\* C21: a watchlist asset for which the cycle got no market data is skipped
\* in that cycle: no place_order call is made for it.
C21_NoMarketDataSkipsAsset ==
    [][ \A i \in OneLoop :
          (pc[i] = "place" /\ calls'[i] # calls[i])
            => cur[i].asset \notin market_data[i]
      ]_vars

\* C22: reading the position of an asset never fails: a record in which
\* side, size or entry price is absent or malformed raises no exception out
\* of execute_trades, which goes on to the items left.
C22_PositionNeverRaises == raised # "InvalidOperation"

C24_ScoreAboveSixtySells ==
    risk_score > SellAbove
      => /\ agent_trades # << >>
         /\ agent_trades[Len(agent_trades)].risk_score = risk_score
         /\ agent_trades[Len(agent_trades)].side = "sell"

\* C25: the main order place_order creates on the exchange carries the
\* side, the amount and, for a limit order, the price the caller passed.
C25_MainOrderCarriesArguments ==
    \A k \in DOMAIN exchange_orders :
        exchange_orders[k].kind = "main"
          => /\ exchange_orders[k].side = request.side
             /\ exchange_orders[k].amount = request.amount
             /\ (request.price # 0
                   => exchange_orders[k].price = request.price)

\* C26: when place_order returns None no order of the call exists on the
\* exchange.
C26_FailureLeavesNoOrder ==
    place_pc = "returned None" => exchange_orders = << >>

\* C27: whenever running is true, a trading_loop task is active or
\* scheduled to start.
C27_RunningMeansLoopExists ==
    running => \E i \in Loops : pc[i] \in ActivePcs \cup {"scheduled"}

\* no trading_loop task is scheduled, in a cycle, asleep or at its while test
NoLoopActive == \A i \in Loops : pc[i] \notin ActivePcs \cup {"scheduled"}

\* C28: once the bot has been stopped and no start follows (running stays
\* false from some point on), every trading_loop task eventually ends and
\* none is active after that.
C28_StoppedLoopTerminates == (<>[](~running)) => <>[]NoLoopActive

C28_Witness ==
    /\ ~running
    /\ \E i \in Loops : stopMark[i] # "none" /\ pc[i] = "done"
    /\ NoLoopActive

\* C29: in a cycle that used the fallback heuristic the decision of an asset
\* is buy exactly when its base symbol occurs in the raw text and hold
\* otherwise; every item of such a cycle that reaches place_order is a buy,
\* and no order the cycle placed is a sell.
C29_FallbackOnlyBuys ==
    /\ \A asset \in DecisionAssets : \A text \in RawTexts :
         /\ FallbackDecision(asset, text) \in {"buy", "hold"}
         /\ FallbackDecision(asset, text) = "buy"
              <=> BaseSymbol(asset) \in text
    /\ \A i \in OneLoop :
         trade_decisions[i] = "fallback"
           => /\ pc[i] = "place" => cur[i].decision = "buy"
              /\ \A k \in DOMAIN executed_trades[i] :
                   executed_trades[i][k].side \in {"buy", "None"}

C29_Witness ==
    \E i \in OneLoop :
        /\ trade_decisions[i] = "fallback"
        /\ \E k \in DOMAIN executed_trades[i] :
             executed_trades[i][k].side = "buy"

\* C30: the list execute_trades returns holds exactly the orders placed
\* successfully during the call: none of its elements is None, and each of
\* them is an order the call appended to executed_trades_log.
C30_ReturnedListIsPlacedOrders ==
    \A i \in OneLoop : \A k \in DOMAIN executed_trades[i] :
        /\ executed_trades[i][k] # NoneOrder
        /\ \E j \in DOMAIN executed_trades_log :
             executed_trades_log[j] = executed_trades[i][k]

\* C31: in a cycle whose fetch of the open positions failed, no opening
\* order (open_long, open_short) is placed for an asset that is held in a
\* position on the exchange.
C31_FailedFetchOpensNothingHeld ==
    [][ \A i \in OneLoop :
          ( /\ pc[i] = "place"
            /\ calls'[i] # calls[i]
            /\ open_positions[i] = "failed"
            /\ Branch(cur[i].decision, cur[i].side)
                 \in {"open_long", "open_short"} )
            => cur[i].held = "none"
      ]_vars

\* the place of a kind of order in the sequence main, take-profit, stop-loss
KindRank(kind) == CASE kind = "main" -> 1 [] kind = "tp" -> 2 [] OTHER -> 3

\* C32: place_order creates its orders in the sequence main, take-profit,
\* stop-loss, each at most once; a trigger order exists only after the main
\* order of the call, has the side opposite to it and its quantity; when the
\* main order was not created, no trigger order is.
C32_TriggersFollowMainOrder ==
    /\ \A j, k \in DOMAIN exchange_orders :
         j < k => KindRank(exchange_orders[j].kind)
                    < KindRank(exchange_orders[k].kind)
    /\ exchange_orders # << >>
         => /\ exchange_orders[1].kind = "main"
            /\ exchange_orders[1].side = request.side
    /\ \A k \in DOMAIN exchange_orders :
         exchange_orders[k].kind \in {"tp", "sl"}
           => /\ exchange_orders[k].type = "trigger"
              /\ exchange_orders[k].side # exchange_orders[1].side
              /\ exchange_orders[k].side \in {"buy", "sell"}
              /\ exchange_orders[k].amount = exchange_orders[1].amount
              /\ exchange_orders[k].price =
                   IF exchange_orders[k].kind = "tp"
                   THEN request.take_profit ELSE request.stop_loss

C32_Witness ==
    /\ place_pc = "returned main_order"
    /\ Len(exchange_orders) = 3
    /\ exchange_orders[2].kind = "tp"
    /\ exchange_orders[3].kind = "sl"

\* `before` is a prefix of `after`
IsPrefix(before, after) ==
    /\ Len(before) <= Len(after)
    /\ \A k \in DOMAIN before : after[k] = before[k]

\* C33: the trade log is append-only: every step of a cycle and of the start,
\* stop, add-asset, remove-asset, status and trades handlers leaves a log
\* that has the log before the step as a prefix.
C33_TradeLogAppendOnly ==
    [][ IsPrefix(executed_trades_log, executed_trades_log') ]_vars

C33_Witness ==
    /\ Len(executed_trades_log) >= 2
    /\ executed_trades_log[1] # executed_trades_log[2]
    /\ response = "executed_trades"

\* C34: add_asset for a tradable asset that was not in the watchlist,
\* followed by remove_asset with the same argument, leaves the watchlist as
\* it was before the add.
C34_AddThenRemoveRestores ==
    ( /\ trip.step = "removed"
      /\ trip.added
      /\ FormatAsset(trip.arg) \notin trip.before )
      => watchlist = trip.before

====
